---- MODULE Spec2Model ----
(***************************************************************************)
(* A model of the cocotb task scheduler (src/src/cocotb/_scheduler.py),    *)
(* of Task (src/src/cocotb/task.py) and of the synchronisation triggers    *)
(* Event and Lock (src/src/cocotb/_base_triggers.py).                      *)
(*                                                                         *)
(* Spec      the scheduler and its tasks: the ready queue, the event loop, *)
(*           a resume split at the points where the running coroutine      *)
(*           calls back into the scheduler, kill, cancel, done-callbacks.  *)
(* SpecLock  one Lock and the triggers returned by its acquire().          *)
(* SpecEvent one Event and the trigger returned by its wait().             *)
(***************************************************************************)
EXTENDS Integers, Sequences, FiniteSets, TLC

\* ------------------------------------------------------------------ bounds
\* done-callbacks registered in all
MaxCallbacks == 2

\* the tasks that exist
Tasks == {1, 2}

\* self._current_task = None
NoTask == 0

\* Test.task, the TestTask that Test.init creates and Test.start queues
TestTask == 1

\* the Task that Scheduler._queue_function creates around its wrapper coroutine;
\* no caller holds a reference to it
WrapperTask == 3

AllTasks == Tasks \cup {WrapperTask}

\* external_waiter objects that Scheduler._run_in_executor creates
MaxWaiters == 3

Waiters == 1..MaxWaiters

NoWaiter == 0

VARIABLES
    state,            \* Task._state
    outcome,          \* Task._outcome
    cancelled_error,  \* Task._cancelled_error is not None
    coro,             \* the frame of Task._coro
    done_callbacks,   \* Task._done_callbacks, each entry with the number of times it was invoked
    scheduled_tasks,  \* Scheduler._scheduled_tasks, an OrderedDict Task -> Outcome
    pending_tasks,    \* Scheduler._pending_tasks, the keys of a dict
    current_task,     \* Scheduler._current_task
    terminate,        \* Scheduler._terminate
    pc,               \* where the scheduler thread is: idle, loop (between two resumes), body (inside a coroutine)
    last,             \* the last call that returned or raised
    queued_before     \* history: <<a, b>> when a was queued before b and both are still queued

schedVars == <<state, outcome, cancelled_error, coro, done_callbacks, scheduled_tasks,
               pending_tasks, current_task, terminate, pc, last,
               queued_before>>

VARIABLES
    pending_threads,  \* Scheduler._pending_threads
    pending_events,   \* Scheduler._pending_events, each Event named by its waiter
    drain_idx,        \* the position of "for ext in self._pending_threads" in _resume_task
    ext_state,        \* external_waiter.state
    ext_outcome,      \* external_waiter._outcome
    ext_event,        \* external_waiter.event._fired
    ext_task,         \* the task that awaits waiter.event.wait()
    thread_pc,        \* where the thread of each waiter is: unstarted, func, blocked (in queue_function), exited
    qf_thread,        \* the waiter whose thread called _queue_function
    qf_event,         \* the threading.Event of _queue_function is set
    qf_outcome,       \* event.outcome in _queue_function
    qf_received       \* what _queue_function returned to the external thread

threadVars == <<ext_state, ext_outcome, ext_event, ext_task, thread_pc, qf_thread, qf_event,
                qf_outcome, qf_received>>

extVars == <<pending_threads, pending_events, drain_idx, threadVars>>

VARIABLES
    locked,           \* Lock._locked
    pending_primed,   \* Lock._pending_primed
    lk_primed,        \* _Lock._primed
    lk_callbacks,     \* _Lock._callbacks
    lk_calls,         \* the number of times each CallbackHandle was run
    lk_nhandles,      \* the number of CallbackHandles created
    lk_last,          \* the last call: its name, the exception, the trigger it fired
    lk_held,          \* history: the grants minus the releases that found the lock held
    lk_before         \* history: <<a, b>> when a was primed before b and both still wait

lockVars == <<locked, pending_primed, lk_primed, lk_callbacks, lk_calls, lk_nhandles,
              lk_last, lk_held, lk_before>>

VARIABLES
    ev_fired,         \* Event._fired
    ev_primed,        \* _Event._primed
    ev_callbacks,     \* _Event._callbacks
    ev_calls,         \* the number of times each CallbackHandle was run
    ev_nhandles,      \* the number of CallbackHandles created
    ev_last,          \* the last call: its name and the exception
    ev_hist,          \* history: new, set (set() was the last of set/clear), cleared (clear() after a set())
    ev_reg,           \* history of each handle: unused, waiting, woken, immediate, rejected, deregistered
    ev_after_clear,   \* history: the handle was registered after set() then clear()
    ev_ran            \* history: the handles the last Trigger._react ran, in the order it ran them

\* a NullTrigger
VARIABLES
    nt_callbacks,     \* NullTrigger._callbacks
    nt_calls,         \* the number of times each CallbackHandle was run
    nt_nhandles,      \* the number of CallbackHandles created
    nt_ran            \* history: the handles the last Trigger._react ran, in the order it ran them

nullVars == <<nt_callbacks, nt_calls, nt_nhandles, nt_ran>>

\* task ids
VARIABLES
    id_count,         \* the class attribute _id_count of Task, TestTask and _RunningTest
    created           \* history: the kind and the _task_id of every task, in the order of creation

idVars == <<id_count, created>>

\* cocotb._shutdown
VARIABLES
    shutdown_callbacks,  \* _shutdown_callbacks
    sd_nregs,            \* the number of register_shutdown_callback calls
    sd_ran,              \* history: the calls cb(reason) of the last run_shutdown_callbacks, in order
    sd_removed           \* history: the callbacks passed to remove_shutdown_callback since they were registered

shutdownVars == <<shutdown_callbacks, sd_nregs, sd_ran, sd_removed>>

miscVars == <<idVars, shutdownVars>>

eventVars == <<ev_fired, ev_primed, ev_callbacks, ev_calls, ev_nhandles, ev_last, ev_hist,
               ev_reg, ev_after_clear, ev_ran>>

vars == <<schedVars, extVars, lockVars, eventVars, nullVars, miscVars>>

\* ------------------------------------------------------------------ Task

\* Task.done
Done(s) == s \in {"FINISHED", "CANCELLED"}

\* Task.cancelled
Cancelled(s) == s = "CANCELLED"

\* Task.result: what the call does in state s with outcome o
Result(s, o) ==
    IF s = "CANCELLED" THEN "raise CancelledError"
    ELSE IF s = "FINISHED"
         THEN (IF o = "Error" THEN "raise Error"
               ELSE IF o = "ValueNone" THEN "return None" ELSE "return value")
         ELSE "raise InvalidStateError"

\* Task.exception
Exception(s, o) ==
    IF s = "CANCELLED" THEN "raise CancelledError"
    ELSE IF s = "FINISHED"
         THEN (IF o = "Error" THEN "return Error" ELSE "return None")
         ELSE "raise InvalidStateError"

\* Task._do_done_callbacks: every callback of the list is called once more
DoDoneCallbacks(cbs) == [i \in DOMAIN cbs |-> cbs[i] + 1]

AddDoneCallbackNoCall(cbs, isDone) == Append(cbs, 0)

\* Task._add_done_callback: called at once on a done task, and appended
AddDoneCallback(cbs, isDone) == Append(cbs, IF isDone THEN 1 ELSE 0)

\* coroutine.close(): a running coroutine cannot be closed
CloseRaises(c) == c = "running"

\* ------------------------------------------------------------- Scheduler

InQueue(q, t) == \E i \in 1..Len(q) : q[i].task = t

QueueTasks(q) == {q[i].task : i \in 1..Len(q)}

PopItemLast(q) == <<q[Len(q)], SubSeq(q, 1, Len(q) - 1)>>

\* OrderedDict.popitem(last=False)
PopItemFirst(q) == <<Head(q), Tail(q)>>

\* OrderedDict.pop(task)
QueueRemove(q, t) == SelectSeq(q, LAMBDA e : e.task # t)

QueueFront(q, t, o) ==
    IF InQueue(q, t)
    THEN [err |-> "InternalError", q |-> q]
    ELSE [err |-> "none", q |-> <<[task |-> t, outcome |-> o]>> \o q]

QueueInsertAlways(q, t, o) == [err |-> "none", q |-> Append(q, [task |-> t, outcome |-> o])]

\* Scheduler._queue
Queue(q, t, o) ==
    IF InQueue(q, t)
    THEN [err |-> "InternalError", q |-> q]
    ELSE [err |-> "none", q |-> Append(q, [task |-> t, outcome |-> o])]

\* Scheduler._unschedule: the exception it raises
UnscheduleErr(q, p, t) ==
    IF InQueue(q, t) \/ t \in p THEN "none" ELSE "RuntimeError"

UnscheduleQueueKeep(q, t) == q

\* Scheduler._unschedule: the ready queue after it
UnscheduleQueue(q, t) == QueueRemove(q, t)

\* Scheduler._unschedule: the pending set after it
UnschedulePending(q, p, t) == IF InQueue(q, t) THEN p ELSE p \ {t}

\* the history of queueing order, after t left the queue
Forget(qb, t) == {e \in qb : e[1] # t /\ e[2] # t}

PendingAddWorks(p, t) == [err |-> "none", p |-> p \cup {t}]

\* self._pending_tasks = {} is a dict: it has no add(), the call raises
PendingAdd(p, t) == [err |-> "AttributeError", p |-> p]

\* the record of a call: its name, the exception it raised, and whether its
\* task was done when it was made
Call(op, t, err) ==
    [op |-> op, err |-> err, done |-> IF t = NoTask THEN FALSE ELSE Done(state[t])]

RECURSIVE CallbackCount(_)
CallbackCount(S) ==
    IF S = {} THEN 0
    ELSE LET t == CHOOSE x \in S : TRUE IN Len(done_callbacks[t]) + CallbackCount(S \ {t})

\* Task.kill (newState FINISHED, outcome Value(None)) and Task.cancel (newState
\* CANCELLED, a CancelledError stored), after their test of done()
Terminate(op, t, newState) ==
    LET e == UnscheduleErr(scheduled_tasks, pending_tasks, t) IN
    IF e # "none"
    THEN /\ last' = Call(op, t, e)
         /\ UNCHANGED <<state, coro, done_callbacks, scheduled_tasks, pending_tasks,
                        queued_before>>
    ELSE /\ scheduled_tasks' = UnscheduleQueue(scheduled_tasks, t)
         /\ pending_tasks' = UnschedulePending(scheduled_tasks, pending_tasks, t)
         /\ queued_before' = Forget(queued_before, t)
         /\ IF CloseRaises(coro[t])
            THEN /\ last' = Call(op, t, "ValueError")
                 /\ UNCHANGED <<state, coro, done_callbacks>>
            ELSE /\ coro' = [coro EXCEPT ![t] = "closed"]
                 /\ state' = [state EXCEPT ![t] = newState]
                 /\ done_callbacks' = [done_callbacks EXCEPT ![t] = DoDoneCallbacks(@)]
                 /\ last' = Call(op, t, "none")

KillAlways(t) ==
    /\ outcome' = [outcome EXCEPT ![t] = "ValueNone"]
    /\ UNCHANGED cancelled_error
    /\ Terminate("kill", t, "FINISHED")

\* Task.kill
Kill(t) ==
    IF Done(state[t])
    THEN /\ last' = Call("kill", t, "none")
         /\ UNCHANGED <<state, outcome, cancelled_error, coro, done_callbacks,
                        scheduled_tasks, pending_tasks, queued_before>>
    ELSE /\ outcome' = [outcome EXCEPT ![t] = "ValueNone"]
         /\ UNCHANGED cancelled_error
         /\ Terminate("kill", t, "FINISHED")

\* Task.cancel
Cancel(t) ==
    IF Done(state[t])
    THEN /\ last' = Call("cancel", t, "none")
         /\ UNCHANGED <<state, outcome, cancelled_error, coro, done_callbacks,
                        scheduled_tasks, pending_tasks, queued_before>>
    ELSE /\ cancelled_error' = [cancelled_error EXCEPT ![t] = TRUE]
         /\ UNCHANGED outcome
         /\ Terminate("cancel", t, "CANCELLED")

\* a call made by the running coroutine, or between two runs of the event loop
CanCall == pc \in {"idle", "body"}

\* Test.start / Test.start_task / Scheduler._queue_function: a task that is not
\* done is queued, with the default outcome of Scheduler._queue
StartTask(t, o) ==
    /\ CanCall
    /\ ~Done(state[t])
    /\ LET r == Queue(scheduled_tasks, t, o) IN
       /\ scheduled_tasks' = r.q
       /\ queued_before' = IF r.err = "none"
                           THEN queued_before \cup {<<a, t>> : a \in QueueTasks(scheduled_tasks)}
                           ELSE queued_before
       /\ last' = Call("queue", t, r.err)
    /\ UNCHANGED <<state, outcome, cancelled_error, coro, done_callbacks, pending_tasks,
                   current_task, terminate, pc>>
    /\ UNCHANGED <<extVars, lockVars, eventVars, nullVars, miscVars>>

CallKill(t) ==
    /\ CanCall
    /\ Kill(t)
    /\ UNCHANGED <<current_task, terminate, pc>>
    /\ UNCHANGED <<extVars, lockVars, eventVars, nullVars, miscVars>>

CallCancel(t) ==
    /\ CanCall
    /\ Cancel(t)
    /\ UNCHANGED <<current_task, terminate, pc>>
    /\ UNCHANGED <<extVars, lockVars, eventVars, nullVars, miscVars>>

CallAddDoneCallback(t) ==
    /\ CanCall
    /\ CallbackCount(Tasks) < MaxCallbacks
    /\ done_callbacks' = [done_callbacks EXCEPT ![t] = AddDoneCallback(@, Done(state[t]))]
    /\ last' = Call("add_done_callback", t, "none")
    /\ UNCHANGED <<state, outcome, cancelled_error, coro, scheduled_tasks, pending_tasks,
                   current_task, terminate, pc, queued_before>>
    /\ UNCHANGED <<extVars, lockVars, eventVars, nullVars, miscVars>>

\* Scheduler.shutdown_soon
ShutdownSoon ==
    /\ CanCall
    /\ terminate' = TRUE
    /\ last' = Call("shutdown_soon", NoTask, "none")
    /\ UNCHANGED <<state, outcome, cancelled_error, coro, done_callbacks, scheduled_tasks,
                   pending_tasks, current_task, pc, queued_before>>
    /\ UNCHANGED <<extVars, lockVars, eventVars, nullVars, miscVars>>

\* Scheduler._event_loop, one turn of its loop up to the coroutine's first
\* instruction: popitem, then Scheduler._resume_task and Task._advance
ResumeBegin ==
    /\ pc \in {"idle", "loop"}
    /\ scheduled_tasks # <<>> /\ ~terminate
    /\ current_task = NoTask
    /\ LET popped == PopItemFirst(scheduled_tasks)
           t == popped[1].task IN
       /\ scheduled_tasks' = popped[2]
       /\ queued_before' = Forget(queued_before, t)
       /\ current_task' = t
       /\ state' = [state EXCEPT ![t] = "RUNNING"]
       /\ coro' = [coro EXCEPT ![t] = "running"]
       /\ last' = Call("resume", t, "none")
    /\ pc' = "body"
    /\ UNCHANGED <<outcome, cancelled_error, done_callbacks, pending_tasks, terminate>>
    /\ UNCHANGED <<extVars, lockVars, eventVars, nullVars, miscVars>>

ResumeRejectedNever(cur) == FALSE

\* Scheduler._resume_task: if self._current_task is not None: raise InternalError
ResumeRejected(cur) == cur # NoTask

\* Scheduler._event_loop entered from the coroutine that is being resumed
\* (Test.start): popitem, then Scheduler._resume_task, which refuses the task
\* before its "try"; the exception comes back to the coroutine
ReentrantEventLoop ==
    /\ pc = "body"
    /\ scheduled_tasks # <<>> /\ ~terminate
    /\ LET popped == PopItemFirst(scheduled_tasks)
           t == popped[1].task IN
       /\ scheduled_tasks' = popped[2]
       /\ queued_before' = Forget(queued_before, t)
       /\ IF ResumeRejected(current_task)
          THEN /\ last' = Call("resume", t, "InternalError")
               /\ UNCHANGED <<current_task, state, coro>>
          ELSE /\ current_task' = t
               /\ state' = [state EXCEPT ![t] = "RUNNING"]
               /\ coro' = [coro EXCEPT ![t] = "running"]
               /\ last' = Call("resume", t, "none")
    /\ UNCHANGED <<outcome, cancelled_error, done_callbacks, pending_tasks, terminate, pc>>
    /\ UNCHANGED <<extVars, lockVars, eventVars, nullVars, miscVars>>

\* Scheduler._resume_task after Task._advance: an exception leaves through
\* "finally"; otherwise the loop over the waiters in threads begins
LeaveAdvance(t, err, threads) ==
    IF err # "none"
    THEN pc' = "idle" /\ current_task' = NoTask /\ drain_idx' = drain_idx
    ELSE IF threads = <<>>
    THEN pc' = "loop" /\ current_task' = NoTask /\ drain_idx' = drain_idx
    ELSE pc' = "drain" /\ current_task' = current_task /\ drain_idx' = 1

\* the running coroutine yields a trigger: the rest of Task._advance and the
\* else branch of Scheduler._resume_task
Yield(threads) ==
    LET t == current_task
        r == PendingAdd(pending_tasks, t) IN
    /\ coro' = [coro EXCEPT ![t] = "suspended"]
    /\ pending_tasks' = r.p
    /\ last' = Call("yield", t, r.err)
    /\ LeaveAdvance(t, r.err, threads)
    /\ UNCHANGED <<state, outcome, cancelled_error, done_callbacks, scheduled_tasks,
                   terminate, queued_before>>

\* the running coroutine returns or raises: the rest of Task._advance with
\* outcome o, and Scheduler._unschedule from Scheduler._resume_task
Finish(o, op) ==
    LET t == current_task
        e == UnscheduleErr(scheduled_tasks, pending_tasks, t) IN
    /\ outcome' = [outcome EXCEPT ![t] = o]
    /\ state' = [state EXCEPT ![t] = "FINISHED"]
    /\ coro' = [coro EXCEPT ![t] = "closed"]
    /\ done_callbacks' = [done_callbacks EXCEPT ![t] = DoDoneCallbacks(@)]
    /\ IF e # "none"
       THEN UNCHANGED <<scheduled_tasks, pending_tasks, queued_before>>
       ELSE /\ scheduled_tasks' = UnscheduleQueue(scheduled_tasks, t)
            /\ pending_tasks' = UnschedulePending(scheduled_tasks, pending_tasks, t)
            /\ queued_before' = Forget(queued_before, t)
    /\ last' = Call(op, t, e)
    /\ LeaveAdvance(t, e, pending_threads)
    /\ UNCHANGED <<cancelled_error, terminate>>

\* the coroutine yields a trigger; the exception of _pending_tasks.add leaves
\* the event loop
BodyYield ==
    /\ pc = "body"
    /\ Yield(pending_threads)
    /\ UNCHANGED <<pending_threads, pending_events, threadVars>>
    /\ UNCHANGED <<lockVars, eventVars, nullVars, miscVars>>

\* the coroutine of a task returns (kind "return") or raises (kind "raise")
BodyFinish(kind) ==
    /\ pc = "body"
    /\ current_task # WrapperTask
    /\ Finish(IF kind = "return" THEN "Value" ELSE "Error", kind)
    /\ UNCHANGED <<pending_threads, pending_events, threadVars>>
    /\ UNCHANGED <<lockVars, eventVars, nullVars, miscVars>>

\* Scheduler._cleanup pops the ready queue up to the first task that is not
\* done: kill() of a task that was popped raises in _unschedule
CleanupStop(q) ==
    IF \E i \in 1..Len(q) : ~Done(state[q[i].task])
    THEN CHOOSE i \in 1..Len(q) :
            /\ ~Done(state[q[i].task])
            /\ \A j \in 1..(i - 1) : Done(state[q[j].task])
    ELSE 0

\* Scheduler._event_loop after its loop: Scheduler._handle_termination and
\* Scheduler._cleanup when the terminate flag is set
LoopExit ==
    /\ pc \in {"idle", "loop"}
    /\ scheduled_tasks = <<>> \/ terminate
    /\ pc = "loop" \/ terminate
    /\ pc' = "idle"
    /\ IF ~terminate
       THEN /\ last' = Call("event_loop", NoTask, "none")
            /\ UNCHANGED <<outcome, scheduled_tasks, queued_before, terminate>>
       ELSE IF pending_tasks # {}
       THEN /\ last' = Call("cleanup", NoTask, "TypeError")
            /\ UNCHANGED <<outcome, scheduled_tasks, queued_before, terminate>>
       ELSE LET k == CleanupStop(scheduled_tasks) IN
            IF k = 0
            THEN /\ scheduled_tasks' = <<>>
                 /\ queued_before' = {}
                 /\ terminate' = FALSE
                 /\ last' = Call("test_complete_cb", NoTask, "none")
                 /\ UNCHANGED outcome
            ELSE /\ scheduled_tasks' = SubSeq(scheduled_tasks, k + 1, Len(scheduled_tasks))
                 /\ queued_before' =
                        {e \in queued_before :
                            \E i \in (k + 1)..Len(scheduled_tasks) :
                            \E j \in (k + 1)..Len(scheduled_tasks) :
                                e = <<scheduled_tasks[i].task, scheduled_tasks[j].task>>}
                 /\ outcome' = [outcome EXCEPT ![scheduled_tasks[k].task] = "ValueNone"]
                 /\ last' = Call("cleanup", scheduled_tasks[k].task, "RuntimeError")
                 /\ UNCHANGED terminate
    /\ UNCHANGED <<state, cancelled_error, coro, done_callbacks, pending_tasks, current_task>>
    /\ UNCHANGED <<extVars, lockVars, eventVars, nullVars, miscVars>>

InitSched ==
    /\ state = [t \in AllTasks |-> "UNSTARTED"]
    /\ outcome = [t \in AllTasks |-> "None"]
    /\ cancelled_error = [t \in AllTasks |-> FALSE]
    /\ coro = [t \in AllTasks |-> "created"]
    /\ done_callbacks = [t \in AllTasks |-> <<>>]
    /\ scheduled_tasks = <<>>
    /\ pending_tasks = {}
    /\ current_task = NoTask
    /\ terminate = FALSE
    /\ pc = "idle"
    /\ last = [op |-> "init", err |-> "none", done |-> FALSE]
    /\ queued_before = {}

NextSched ==
    \/ \E t \in Tasks : StartTask(t, "ValueNone")
    \/ \E t \in Tasks : CallKill(t)
    \/ \E t \in Tasks : CallCancel(t)
    \/ \E t \in Tasks : CallAddDoneCallback(t)
    \/ ShutdownSoon
    \/ ResumeBegin
    \/ BodyYield
    \/ \E kind \in {"return", "raise"} : BodyFinish(kind)
    \/ LoopExit

\* ------------------------------------------------------ external bridge

\* external_waiter.thread_suspend
ThreadSuspend(st) == "PAUSED"

\* external_waiter.thread_resume
ThreadResume(st) == "RUNNING"

\* external_waiter.thread_start: a waiter past INIT is left alone
ThreadStart(st) == IF st = "INIT" THEN "RUNNING" ELSE st

\* external_waiter.thread_wait returns once the state is not RUNNING
ThreadWaitReturns(st) == st # "RUNNING"

EventWaitNoBlock(isSet) == TRUE

\* threading.Event.wait in Scheduler._queue_function: blocks until set
EventWait(isSet) == isSet

\* list.remove
ListRemove(l, w) == SelectSeq(l, LAMBDA x : x # w)

\* Scheduler._queue_function: the waiter of the calling thread is found
ListHas(l, w) == \E i \in 1..Len(l) : l[i] = w

\* Scheduler._run_in_executor, the wrapper awaited by the running task: a new
\* waiter joins _pending_threads and the task yields waiter.event.wait()
RunInExecutor ==
    /\ pc = "body"
    /\ \E w \in Waiters :
        /\ ext_task[w] = NoTask
        /\ \A v \in Waiters : v < w => ext_task[v] # NoTask
        /\ pending_threads' = Append(pending_threads, w)
        /\ ext_task' = [ext_task EXCEPT ![w] = current_task]
        /\ Yield(Append(pending_threads, w))
    /\ UNCHANGED <<pending_events, ext_state, ext_outcome, ext_event, thread_pc, qf_thread,
                   qf_event, qf_outcome, qf_received>>
    /\ UNCHANGED <<lockVars, eventVars, nullVars, miscVars>>

\* the wrapper coroutine of Scheduler._queue_function ends: the awaited
\* coroutine returned or raised, its outcome is stored, the external thread
\* is resumed and its threading.Event set; then the wrapper's task finishes
WrapperFinish(kind) ==
    /\ pc = "body"
    /\ current_task = WrapperTask
    /\ qf_outcome' = (IF kind = "return" THEN "Value" ELSE "Error")
    /\ ext_state' = [ext_state EXCEPT ![qf_thread] = ThreadResume(@)]
    /\ qf_event' = TRUE
    /\ Finish("ValueNone", "wrapper")
    /\ UNCHANGED <<pending_threads, pending_events, ext_outcome, ext_event, ext_task,
                   thread_pc, qf_thread, qf_received>>
    /\ UNCHANGED <<lockVars, eventVars, nullVars, miscVars>>

\* Scheduler._resume_task, the loop over _pending_threads: thread_start of a
\* waiter in INIT starts its thread
DrainStart ==
    /\ pc = "drain"
    /\ drain_idx <= Len(pending_threads)
    /\ LET w == pending_threads[drain_idx] IN
       /\ ext_state[w] = "INIT"
       /\ ext_state' = [ext_state EXCEPT ![w] = ThreadStart(@)]
       /\ thread_pc' = [thread_pc EXCEPT ![w] = "func"]
    /\ UNCHANGED <<pending_threads, pending_events, drain_idx, ext_outcome, ext_event,
                   ext_task, qf_thread, qf_event, qf_outcome, qf_received>>
    /\ UNCHANGED <<schedVars, lockVars, eventVars, nullVars, miscVars>>

\* the same loop: thread_wait returns; a waiter that EXITED leaves
\* _pending_threads for _pending_events while the list is iterated
DrainWait ==
    /\ pc = "drain"
    /\ drain_idx <= Len(pending_threads)
    /\ LET w == pending_threads[drain_idx] IN
       /\ ext_state[w] # "INIT"
       /\ ThreadWaitReturns(ext_state[w])
       /\ IF ext_state[w] = "EXITED"
          THEN /\ pending_threads' = ListRemove(pending_threads, w)
               /\ pending_events' = Append(pending_events, w)
          ELSE UNCHANGED <<pending_threads, pending_events>>
    /\ drain_idx' = drain_idx + 1
    /\ UNCHANGED threadVars
    /\ UNCHANGED <<schedVars, lockVars, eventVars, nullVars, miscVars>>

\* the loop is over: "finally" clears _current_task and _resume_task returns
DrainEnd ==
    /\ pc = "drain"
    /\ drain_idx > Len(pending_threads)
    /\ current_task' = NoTask
    /\ pc' = (IF pending_events # <<>> THEN "events" ELSE "loop")
    /\ drain_idx' = 1
    /\ UNCHANGED <<state, outcome, cancelled_error, coro, done_callbacks, scheduled_tasks,
                   pending_tasks, terminate, last, queued_before>>
    /\ UNCHANGED <<pending_threads, pending_events, threadVars>>
    /\ UNCHANGED <<lockVars, eventVars, nullVars, miscVars>>

EventsPopLast(l) == <<l[Len(l)], SubSeq(l, 1, Len(l) - 1)>>

\* Scheduler._event_loop: self._pending_events.pop(0)
EventsPop(l) == <<Head(l), Tail(l)>>

\* Scheduler._event_loop: self._pending_events.pop(0).set(); Event.set runs
\* the callbacks registered on the trigger of wait(), and the scheduler
\* registered none
PendingEventsSet ==
    /\ pc = "events"
    /\ ext_event' = [ext_event EXCEPT ![EventsPop(pending_events)[1]] = TRUE]
    /\ pending_events' = EventsPop(pending_events)[2]
    /\ pc' = (IF EventsPop(pending_events)[2] = <<>> THEN "loop" ELSE "events")
    /\ UNCHANGED <<state, outcome, cancelled_error, coro, done_callbacks, scheduled_tasks,
                   pending_tasks, current_task, terminate, last, queued_before>>
    /\ UNCHANGED <<pending_threads, drain_idx, ext_state, ext_outcome, ext_task, thread_pc,
                   qf_thread, qf_event, qf_outcome, qf_received>>
    /\ UNCHANGED <<lockVars, eventVars, nullVars, miscVars>>

\* execute_external: the function returned or raised, capture() stores the
\* outcome and thread_done() reports EXITED
ThreadDone(w, kind) ==
    /\ thread_pc[w] = "func"
    /\ ext_outcome' = [ext_outcome EXCEPT ![w] = IF kind = "return" THEN "Value" ELSE "Error"]
    /\ ext_state' = [ext_state EXCEPT ![w] = "EXITED"]
    /\ thread_pc' = [thread_pc EXCEPT ![w] = "exited"]
    /\ UNCHANGED <<pending_threads, pending_events, drain_idx, ext_event, ext_task,
                   qf_thread, qf_event, qf_outcome, qf_received>>
    /\ UNCHANGED <<schedVars, lockVars, eventVars, nullVars, miscVars>>

\* Scheduler._queue_function called by the function of waiter w: the wrapper
\* task is queued, the waiter PAUSED, and the thread waits for its Event
ThreadQueueFunction(w) ==
    /\ thread_pc[w] = "func"
    /\ ListHas(pending_threads, w)
    /\ qf_thread = NoWaiter
    /\ state[WrapperTask] = "UNSTARTED"
    /\ LET r == Queue(scheduled_tasks, WrapperTask, "ValueNone") IN
       /\ scheduled_tasks' = r.q
       /\ queued_before' = IF r.err = "none"
                           THEN queued_before \cup
                                {<<a, WrapperTask>> : a \in QueueTasks(scheduled_tasks)}
                           ELSE queued_before
    /\ ext_state' = [ext_state EXCEPT ![w] = ThreadSuspend(@)]
    /\ thread_pc' = [thread_pc EXCEPT ![w] = "blocked"]
    /\ qf_thread' = w
    /\ UNCHANGED <<state, outcome, cancelled_error, coro, done_callbacks, pending_tasks,
                   current_task, terminate, pc, last>>
    /\ UNCHANGED <<pending_threads, pending_events, drain_idx, ext_outcome, ext_event,
                   ext_task, qf_event, qf_outcome, qf_received>>
    /\ UNCHANGED <<lockVars, eventVars, nullVars, miscVars>>

\* Scheduler._queue_function: event.wait() returned, the outcome is handed to
\* the function, which goes on
ThreadQueueFunctionReturn(w) ==
    /\ thread_pc[w] = "blocked"
    /\ qf_thread = w
    /\ EventWait(qf_event)
    /\ qf_received' = qf_outcome
    /\ thread_pc' = [thread_pc EXCEPT ![w] = "func"]
    /\ UNCHANGED <<pending_threads, pending_events, drain_idx, ext_state, ext_outcome,
                   ext_event, ext_task, qf_thread, qf_event, qf_outcome>>
    /\ UNCHANGED <<schedVars, lockVars, eventVars, nullVars, miscVars>>

InitExt ==
    /\ pending_threads = <<>>
    /\ pending_events = <<>>
    /\ drain_idx = 1
    /\ ext_state = [w \in Waiters |-> "INIT"]
    /\ ext_outcome = [w \in Waiters |-> "None"]
    /\ ext_event = [w \in Waiters |-> FALSE]
    /\ ext_task = [w \in Waiters |-> NoTask]
    /\ thread_pc = [w \in Waiters |-> "unstarted"]
    /\ qf_thread = NoWaiter
    /\ qf_event = FALSE
    /\ qf_outcome = "None"
    /\ qf_received = "None"

NextExt ==
    \/ \E t \in Tasks : StartTask(t, "ValueNone")
    \/ ResumeBegin
    \/ ReentrantEventLoop
    \/ BodyYield
    \/ \E kind \in {"return", "raise"} : BodyFinish(kind)
    \/ LoopExit
    \/ RunInExecutor
    \/ \E kind \in {"return", "raise"} : WrapperFinish(kind)
    \/ DrainStart
    \/ DrainWait
    \/ DrainEnd
    \/ PendingEventsSet
    \/ \E w \in Waiters : \E kind \in {"return", "raise"} : ThreadDone(w, kind)
    \/ \E w \in Waiters : ThreadQueueFunction(w)
    \/ \E w \in Waiters : ThreadQueueFunctionReturn(w)

\* the scheduler thread and the external threads go on running: a coroutine
\* that runs reaches its next await or its end, the event loop takes the next
\* task, a function that runs ends or calls queue_function
FairExt ==
    /\ WF_vars(ResumeBegin)
    /\ WF_vars(BodyYield \/ \E kind \in {"return", "raise"} : BodyFinish(kind))
    /\ WF_vars(\E kind \in {"return", "raise"} : WrapperFinish(kind))
    /\ WF_vars(LoopExit)
    /\ WF_vars(DrainStart)
    /\ WF_vars(DrainWait)
    /\ WF_vars(DrainEnd)
    /\ WF_vars(PendingEventsSet)
    /\ \A w \in Waiters : WF_vars(\E kind \in {"return", "raise"} : ThreadDone(w, kind))
    /\ \A w \in Waiters : WF_vars(ThreadQueueFunctionReturn(w))

\* -------------------------------------------------------- Deck, Trigger

\* Deck.append (cocotb._utils): the handle goes to the end
DeckAppend(d, h) == Append(d, h)

DeckPopLast(d) == <<d[Len(d)], SubSeq(d, 1, Len(d) - 1)>>

\* Deck.pop: the handle registered first, and the rest
DeckPop(d) == <<Head(d), Tail(d)>>

\* Deck.remove
DeckRemove(d, h) == SelectSeq(d, LAMBDA x : x # h)

DeckHas(d, h) == \E i \in 1..Len(d) : d[i] = h

DeregisterUnprimesAlways(d) == TRUE

\* Trigger.deregister: if not self._callbacks: self._unprime()
DeregisterUnprimes(d) == d = <<>>

ReactOrderTwice(d) == d \o d

\* Trigger._react: the handles in the order its loop pops and runs them
RECURSIVE ReactOrder(_)
ReactOrder(d) == IF d = <<>> THEN <<>> ELSE <<DeckPop(d)[1]>> \o ReactOrder(DeckPop(d)[2])

\* CallbackHandle._run of every handle Trigger._react pops: the numbers of calls
RunAll(calls, d) ==
    [h \in DOMAIN calls |->
        calls[h] + Cardinality({i \in 1..Len(ReactOrder(d)) : ReactOrder(d)[i] = h})]

\* ------------------------------------------------------------------ Lock

\* triggers returned by Lock.acquire()
NLockTrigs == 3
\* CallbackHandles created by register() on them
MaxLockHandles == 5

LockTrigs == 1..NLockTrigs
LockHandles == 1..MaxLockHandles

LockIsFreeAlways(l) == TRUE

\* Lock._prime_lock: if not self._locked
LockIsFree(l) == ~l

PendingPopLast(p) == <<p[Len(p)], SubSeq(p, 1, Len(p) - 1)>>

\* Lock.release: self._pending_primed.pop(0)
PendingPop(p) == <<Head(p), Tail(p)>>

\* Lock._unprime_lock
UnprimeLock(p, g) == SelectSeq(p, LAMBDA x : x # g)

ReleaseRaisesNever(l) == FALSE

\* Lock.release: if not self._locked: raise RuntimeError
ReleaseRaises(l) == ~l

LockCall(op, err, grant) == [op |-> op, err |-> err, grant |-> grant]

\* Trigger.register on an acquire() trigger: _Lock._prime, Lock._prime_lock,
\* Lock._acquire_and_fire, Trigger._react, _Lock._cleanup
LockRegister(g) ==
    /\ lk_nhandles < MaxLockHandles
    /\ LET h == lk_nhandles + 1
           deck == DeckAppend(lk_callbacks[g], h) IN
       /\ lk_nhandles' = h
       /\ IF lk_primed[g]
          THEN /\ lk_callbacks' = [lk_callbacks EXCEPT ![g] = deck]
               /\ lk_last' = LockCall("register", "RuntimeError", {})
               /\ UNCHANGED <<locked, pending_primed, lk_primed, lk_calls, lk_held, lk_before>>
          ELSE IF LockIsFree(locked)
          THEN /\ locked' = TRUE
               /\ lk_calls' = RunAll(lk_calls, deck)
               /\ lk_callbacks' = [lk_callbacks EXCEPT ![g] = <<>>]
               /\ lk_primed' = [lk_primed EXCEPT ![g] = FALSE]
               /\ lk_held' = lk_held + 1
               /\ lk_last' = LockCall("register", "none", {g})
               /\ UNCHANGED <<pending_primed, lk_before>>
          ELSE /\ pending_primed' = Append(pending_primed, g)
               /\ lk_primed' = [lk_primed EXCEPT ![g] = TRUE]
               /\ lk_callbacks' = [lk_callbacks EXCEPT ![g] = deck]
               /\ lk_before' = lk_before \cup
                                {<<pending_primed[i], g>> : i \in 1..Len(pending_primed)}
               /\ lk_last' = LockCall("register", "none", {})
               /\ UNCHANGED <<locked, lk_calls, lk_held>>
    /\ UNCHANGED <<schedVars, extVars, eventVars, nullVars, miscVars>>

\* CallbackHandle.cancel / Trigger.deregister of a handle that is registered:
\* _Lock._unprime and Lock._unprime_lock when it was the last one
LockDeregister(g, h) ==
    /\ DeckHas(lk_callbacks[g], h)
    /\ LET deck == DeckRemove(lk_callbacks[g], h) IN
       /\ lk_callbacks' = [lk_callbacks EXCEPT ![g] = deck]
       /\ IF DeregisterUnprimes(deck)
          THEN /\ pending_primed' = UnprimeLock(pending_primed, g)
               /\ lk_primed' = [lk_primed EXCEPT ![g] = FALSE]
               /\ lk_before' = Forget(lk_before, g)
          ELSE UNCHANGED <<pending_primed, lk_primed, lk_before>>
    /\ lk_last' = LockCall("deregister", "none", {})
    /\ UNCHANGED <<locked, lk_calls, lk_nhandles, lk_held>>
    /\ UNCHANGED <<schedVars, extVars, eventVars, nullVars, miscVars>>

\* Lock.release
LockRelease ==
    /\ IF ReleaseRaises(locked)
       THEN /\ lk_last' = LockCall("release", "RuntimeError", {})
            /\ UNCHANGED <<locked, pending_primed, lk_primed, lk_callbacks, lk_calls,
                           lk_nhandles, lk_held, lk_before>>
       ELSE IF pending_primed = <<>>
       THEN /\ locked' = FALSE
            /\ lk_held' = lk_held - 1
            /\ lk_last' = LockCall("release", "none", {})
            /\ UNCHANGED <<pending_primed, lk_primed, lk_callbacks, lk_calls, lk_nhandles,
                           lk_before>>
       ELSE LET g == PendingPop(pending_primed)[1] IN
            /\ pending_primed' = PendingPop(pending_primed)[2]
            /\ locked' = TRUE
            /\ lk_calls' = RunAll(lk_calls, lk_callbacks[g])
            /\ lk_callbacks' = [lk_callbacks EXCEPT ![g] = <<>>]
            /\ lk_primed' = [lk_primed EXCEPT ![g] = FALSE]
            /\ lk_before' = Forget(lk_before, g)
            /\ lk_last' = LockCall("release", "none", {g})
            /\ UNCHANGED <<lk_nhandles, lk_held>>
    /\ UNCHANGED <<schedVars, extVars, eventVars, nullVars, miscVars>>

InitLock ==
    /\ locked = FALSE
    /\ pending_primed = <<>>
    /\ lk_primed = [g \in LockTrigs |-> FALSE]
    /\ lk_callbacks = [g \in LockTrigs |-> <<>>]
    /\ lk_calls = [h \in LockHandles |-> 0]
    /\ lk_nhandles = 0
    /\ lk_last = LockCall("init", "none", {})
    /\ lk_held = 0
    /\ lk_before = {}

NextLock ==
    \/ \E g \in LockTrigs : LockRegister(g)
    \/ \E g \in LockTrigs : \E h \in LockHandles : LockDeregister(g, h)
    \/ LockRelease

\* ----------------------------------------------------------------- Event

\* CallbackHandles created by register() on the trigger of Event.wait()
MaxEventHandles == 4

EventHandles == 1..MaxEventHandles

\* Event.is_set
IsSet(f) == f

ClearKeeps(f) == f

\* Event.clear
Clear(f) == FALSE

EventCall(op, err) == [op |-> op, err |-> err]

\* Trigger.register on Event.wait(), which is the one _Event of the Event:
\* _Event._prime, and Trigger._react and _Event._cleanup if the event is set
EventRegister ==
    /\ ev_nhandles < MaxEventHandles
    /\ LET h == ev_nhandles + 1
           deck == DeckAppend(ev_callbacks, h) IN
       /\ ev_nhandles' = h
       /\ ev_after_clear' = [ev_after_clear EXCEPT ![h] = ev_hist = "cleared"]
       /\ IF ev_primed
          THEN /\ ev_callbacks' = deck
               /\ ev_last' = EventCall("register", "RuntimeError")
               /\ ev_reg' = [ev_reg EXCEPT ![h] = "rejected"]
               /\ UNCHANGED <<ev_primed, ev_calls, ev_ran>>
          ELSE /\ ev_last' = EventCall("register", "none")
               /\ ev_reg' = [ev_reg EXCEPT ![h] = IF ev_hist = "set" THEN "immediate" ELSE "waiting"]
               /\ IF IsSet(ev_fired)
                  THEN /\ ev_calls' = RunAll(ev_calls, deck)
                       /\ ev_ran' = ReactOrder(deck)
                       /\ ev_callbacks' = <<>>
                       /\ ev_primed' = FALSE
                  ELSE /\ ev_primed' = TRUE
                       /\ ev_callbacks' = deck
                       /\ UNCHANGED <<ev_calls, ev_ran>>
    /\ UNCHANGED <<ev_fired, ev_hist>>
    /\ UNCHANGED <<schedVars, extVars, lockVars, nullVars, miscVars>>

\* CallbackHandle.cancel / Trigger.deregister of a handle that is registered
EventDeregister(h) ==
    /\ DeckHas(ev_callbacks, h)
    /\ ev_callbacks' = DeckRemove(ev_callbacks, h)
    /\ ev_primed' = IF DeregisterUnprimes(DeckRemove(ev_callbacks, h)) THEN FALSE ELSE ev_primed
    /\ ev_reg' = [ev_reg EXCEPT ![h] = "deregistered"]
    /\ ev_last' = EventCall("deregister", "none")
    /\ UNCHANGED <<ev_fired, ev_calls, ev_nhandles, ev_hist, ev_after_clear, ev_ran>>
    /\ UNCHANGED <<schedVars, extVars, lockVars, nullVars, miscVars>>

\* Event.set: Trigger._react and _Event._cleanup
EventSet ==
    /\ ev_fired' = TRUE
    /\ ev_calls' = RunAll(ev_calls, ev_callbacks)
    /\ ev_ran' = ReactOrder(ev_callbacks)
    /\ ev_callbacks' = <<>>
    /\ ev_primed' = FALSE
    /\ ev_hist' = "set"
    /\ ev_reg' = [h \in EventHandles |-> IF ev_reg[h] = "waiting" THEN "woken" ELSE ev_reg[h]]
    /\ ev_last' = EventCall("set", "none")
    /\ UNCHANGED <<ev_nhandles, ev_after_clear>>
    /\ UNCHANGED <<schedVars, extVars, lockVars, nullVars, miscVars>>

\* Event.clear
EventClear ==
    /\ ev_fired' = Clear(ev_fired)
    /\ ev_hist' = IF ev_hist = "new" THEN "new" ELSE "cleared"
    /\ ev_last' = EventCall("clear", "none")
    /\ UNCHANGED <<ev_primed, ev_callbacks, ev_calls, ev_nhandles, ev_reg, ev_after_clear, ev_ran>>
    /\ UNCHANGED <<schedVars, extVars, lockVars, nullVars, miscVars>>

InitEvent ==
    /\ ev_ran = <<>>
    /\ ev_fired = FALSE
    /\ ev_primed = FALSE
    /\ ev_callbacks = <<>>
    /\ ev_calls = [h \in EventHandles |-> 0]
    /\ ev_nhandles = 0
    /\ ev_last = EventCall("init", "none")
    /\ ev_hist = "new"
    /\ ev_reg = [h \in EventHandles |-> "unused"]
    /\ ev_after_clear = [h \in EventHandles |-> FALSE]

NextEvent ==
    \/ EventRegister
    \/ \E h \in EventHandles : EventDeregister(h)
    \/ EventSet
    \/ EventClear

\* -------------------------------------------------------- specifications

\* calls on the Event made by the coroutine of the task that is being resumed
TaskEventRegister == pc = "body" /\ EventRegister

TaskEventDeregister(h) == pc = "body" /\ EventDeregister(h)

TaskEventSet == pc = "body" /\ EventSet

TaskEventClear == pc = "body" /\ EventClear

\* the running coroutine awaits Event.wait(): Trigger.__await__ yields the
\* _Event of the Event, and Scheduler._resume_task goes on as for any yield,
\* without a call of register
TaskAwaitEvent ==
    /\ pc = "body"
    /\ LET t == current_task
           r == PendingAdd(pending_tasks, t) IN
       /\ coro' = [coro EXCEPT ![t] = "suspended"]
       /\ pending_tasks' = r.p
       /\ last' = Call("await_event", t, r.err)
       /\ LeaveAdvance(t, r.err, pending_threads)
    /\ UNCHANGED <<state, outcome, cancelled_error, done_callbacks, scheduled_tasks,
                   terminate, queued_before>>
    /\ UNCHANGED <<pending_threads, pending_events, threadVars>>
    /\ UNCHANGED <<lockVars, eventVars, nullVars, miscVars>>

\* tasks that are queued and resumed, and whose coroutines use the Event
NextWake ==
    \/ \E t \in Tasks : StartTask(t, "ValueNone")
    \/ ResumeBegin
    \/ BodyYield
    \/ \E kind \in {"return", "raise"} : BodyFinish(kind)
    \/ LoopExit
    \/ TaskAwaitEvent
    \/ TaskEventRegister
    \/ \E h \in EventHandles : TaskEventDeregister(h)
    \/ TaskEventSet
    \/ TaskEventClear

\* ----------------------------------------------------------- NullTrigger

\* CallbackHandles created by register() on the NullTrigger
MaxNullHandles == 3

NullHandles == 1..MaxNullHandles

NullPrimeIdle(d) == <<>>

\* NullTrigger._prime: self._react()
NullPrime(d) == ReactOrder(d)

\* Trigger.register on a NullTrigger: NullTrigger._prime, Trigger._react, and
\* NullTrigger._cleanup, which does nothing
NullRegister ==
    /\ nt_nhandles < MaxNullHandles
    /\ LET h == nt_nhandles + 1
           deck == DeckAppend(nt_callbacks, h)
           ran == NullPrime(deck) IN
       /\ nt_nhandles' = h
       /\ nt_ran' = ran
       /\ nt_calls' = [x \in NullHandles |->
                          nt_calls[x] + Cardinality({i \in 1..Len(ran) : ran[i] = x})]
       /\ nt_callbacks' = SelectSeq(deck, LAMBDA x : ~DeckHas(ran, x))
    /\ UNCHANGED <<schedVars, extVars, lockVars, eventVars, miscVars>>

InitNull ==
    /\ nt_callbacks = <<>>
    /\ nt_calls = [h \in NullHandles |-> 0]
    /\ nt_nhandles = 0
    /\ nt_ran = <<>>

\* the triggers that may fire when they are primed: an acquire() trigger of a
\* Lock, the wait() trigger of an Event, a NullTrigger. The three objects share
\* no state, and each behaviour makes its calls on one of them
NextPrime ==
    \/ InitEvent /\ InitNull /\ NextLock
    \/ InitLock /\ InitNull /\ NextEvent
    \/ InitLock /\ InitEvent /\ NullRegister

\* -------------------------------------------------------------- task ids

\* tasks created
MaxCreated == 4

\* the classes of tasks: Task and its subclasses TestTask and _RunningTest
Kinds == {"Task", "TestTask", "_RunningTest"}

\* a subclass that has no _id_count attribute of its own
Unset == -1

\* self._id_count, type(self)._id_count: the attribute of the class itself
\* if it has one, else the one inherited from Task
IdCount(ic, k) == IF ic[k] # Unset THEN ic[k] ELSE ic["Task"]

\* Task.__init__: self._task_id = self._id_count; type(self)._id_count += 1
NewTask(k) ==
    /\ Len(created) < MaxCreated
    /\ created' = Append(created, [kind |-> k, id |-> IdCount(id_count, k)])
    /\ id_count' = [id_count EXCEPT ![k] = IdCount(id_count, k) + 1]
    /\ UNCHANGED <<schedVars, extVars, lockVars, eventVars, nullVars, shutdownVars>>

InitIds ==
    /\ id_count = [k \in Kinds |-> IF k = "Task" THEN 0 ELSE Unset]
    /\ created = <<>>

NextIds == \E k \in Kinds : NewTask(k)

\* ------------------------------------------------------- shutdown callbacks

\* register_shutdown_callback calls
MaxShutdownRegs == 3

\* the callbacks a caller may register
ShutdownCbs == {"cb1", "cb2"}

\* the reasons the simulator may give
Reasons == {"reason1", "reason2"}

ListPopFirst(l) == <<Head(l), Tail(l)>>

\* list.pop(): the last entry, and the rest
ListPop(l) == <<l[Len(l)], SubSeq(l, 1, Len(l) - 1)>>

\* run_shutdown_callbacks: the callbacks in the order its loop pops and calls them
RECURSIVE RunOrder(_)
RunOrder(l) == IF l = <<>> THEN <<>> ELSE <<ListPop(l)[1]>> \o RunOrder(ListPop(l)[2])

\* register_shutdown_callback
RegisterShutdownCallback(cb) ==
    /\ sd_nregs < MaxShutdownRegs
    /\ sd_nregs' = sd_nregs + 1
    /\ shutdown_callbacks' = Append(shutdown_callbacks, cb)
    /\ sd_removed' = sd_removed \ {cb}
    /\ UNCHANGED sd_ran
    /\ UNCHANGED <<schedVars, extVars, lockVars, eventVars, nullVars, idVars>>

\* remove_shutdown_callback of a callback that is registered: the function
\* has a docstring and no statement
RemoveShutdownCallback(cb) ==
    /\ ListHas(shutdown_callbacks, cb)
    /\ sd_removed' = sd_removed \cup {cb}
    /\ UNCHANGED <<shutdown_callbacks, sd_nregs, sd_ran>>
    /\ UNCHANGED <<schedVars, extVars, lockVars, eventVars, nullVars, idVars>>

\* run_shutdown_callbacks
RunShutdownCallbacks(reason) ==
    /\ sd_ran' = [i \in 1..Len(shutdown_callbacks) |->
                    [cb |-> RunOrder(shutdown_callbacks)[i], reason |-> reason]]
    /\ shutdown_callbacks' = <<>>
    /\ sd_removed' = {}
    /\ UNCHANGED sd_nregs
    /\ UNCHANGED <<schedVars, extVars, lockVars, eventVars, nullVars, idVars>>

InitShutdown ==
    /\ shutdown_callbacks = <<>>
    /\ sd_nregs = 0
    /\ sd_ran = <<>>
    /\ sd_removed = {}

NextShutdown ==
    \/ \E cb \in ShutdownCbs : RegisterShutdownCallback(cb)
    \/ \E cb \in ShutdownCbs : RemoveShutdownCallback(cb)
    \/ \E reason \in Reasons : RunShutdownCallbacks(reason)

Init == InitSched /\ InitExt /\ InitLock /\ InitEvent /\ InitNull /\ InitIds /\ InitShutdown

Next == NextSched

Spec == Init /\ [][Next]_vars

SpecExt == Init /\ [][NextExt]_vars

SpecExtFair == SpecExt /\ FairExt

SpecLock == Init /\ [][NextLock]_vars

SpecEvent == Init /\ [][NextEvent]_vars

SpecPrime == Init /\ [][NextPrime]_vars

SpecWake == Init /\ [][NextWake]_vars

SpecIds == Init /\ [][NextIds]_vars

SpecShutdown == Init /\ [][NextShutdown]_vars

\* ------------------------------------------------------------ properties

Terminal == {"FINISHED", "CANCELLED"}

C2_QueueAtMostOnce ==
    /\ [](\A i \in 1..Len(scheduled_tasks) : \A j \in 1..Len(scheduled_tasks) :
            i # j => scheduled_tasks[i].task # scheduled_tasks[j].task)
    /\ [][\A t \in Tasks :
            (StartTask(t, "ValueNone") /\ InQueue(scheduled_tasks, t))
            => (last'.err = "InternalError" /\ scheduled_tasks' = scheduled_tasks)]_vars

\* a queued task was queued again, with another task in the queue
C2_Witness ==
    /\ last.op = "queue" /\ last.err = "InternalError"
    /\ Len(scheduled_tasks) = 2

\* C3: the task the event loop resumes is the one that was queued first among
\* the tasks in the ready queue: no task that is still queued was queued
\* before it.
C3_FifoResume ==
    [][(current_task = NoTask /\ current_task' # NoTask)
        => ~\E a \in QueueTasks(scheduled_tasks') : <<a, current_task'>> \in queued_before]_vars

\* a task was popped and resumed while a task queued after it waits
C3_Witness ==
    /\ last.op = "resume" /\ current_task # NoTask
    /\ scheduled_tasks # <<>>

\* C8: kill() of a task that is not terminal returns without an exception and
\* leaves the task FINISHED with outcome Value(None), result() returning None.
C8_KillTerminates ==
    [][\A t \in Tasks :
        (CallKill(t) /\ state[t] \notin Terminal)
        => /\ last'.err = "none"
           /\ state'[t] = "FINISHED"
           /\ outcome'[t] = "ValueNone"
           /\ Result(state'[t], outcome'[t]) = "return None"]_vars

\* C9: cancel() of a task that is not terminal returns without an exception
\* with the task CANCELLED, its done-callbacks run, and result() and
\* exception() raising the CancelledError.
C9_CancelSynchronous ==
    [][\A t \in Tasks :
        (CallCancel(t) /\ state[t] \notin Terminal)
        => /\ last'.err = "none"
           /\ Cancelled(state'[t]) /\ Done(state'[t])
           /\ \A i \in 1..Len(done_callbacks'[t]) : done_callbacks'[t][i] = 1
           /\ cancelled_error'[t]
           /\ Result(state'[t], outcome'[t]) = "raise CancelledError"
           /\ Exception(state'[t], outcome'[t]) = "raise CancelledError"]_vars

\* C10: kill() and cancel() of a FINISHED or CANCELLED task change neither the
\* task (state, outcome, cancellation error, coroutine, done-callbacks and
\* the number of times each ran) nor the ready queue and the pending set.
C10_TerminalNoop ==
    [][\A t \in Tasks :
        ((CallKill(t) \/ CallCancel(t)) /\ state[t] \in Terminal)
        => UNCHANGED <<state, outcome, cancelled_error, coro, done_callbacks,
                       scheduled_tasks, pending_tasks>>]_vars

\* kill() or cancel() returned on a task that was terminal and has callbacks
C10_Witness ==
    /\ last.op \in {"kill", "cancel"} /\ last.done /\ last.err = "none"
    /\ \E t \in Tasks : state[t] \in Terminal /\ done_callbacks[t] # <<>>

\* C4: a release() that finds waiters grants the lock to the attempt that was
\* primed first among those still waiting: no attempt that still waits was
\* primed before the one that is granted the lock.
C4_LockFifo ==
    [][(LockRelease /\ locked /\ pending_primed # <<>>)
        => /\ lk_last'.grant # {}
           /\ \A g \in lk_last'.grant : ~\E a \in LockTrigs : <<a, g>> \in lk_before]_vars

\* a release() granted the lock while another attempt, primed later, waits
C4_Witness ==
    /\ lk_last.op = "release" /\ lk_last.grant # {}
    /\ pending_primed # <<>>

\* C5: the grants of the lock exceed its releases by one when it is held and
\* by none when it is free; a trigger is fired by a register() that found the
\* lock free or by a release() for which it waited; a release() leaves the
\* lock held if it found waiters and free if it found none.
C5_MutualExclusion ==
    /\ [](lk_held \in {0, 1} /\ (locked <=> lk_held = 1))
    /\ [][\A g \in lk_last'.grant :
            \/ lk_last'.op = "register" /\ ~locked
            \/ lk_last'.op = "release" /\ locked /\ DeckHas(pending_primed, g)]_vars
    /\ [][(LockRelease /\ locked) => (locked' <=> pending_primed # <<>>)]_vars

\* a release() handed the held lock over to a waiter
C5_Witness ==
    /\ lk_last.op = "release" /\ lk_last.grant # {}
    /\ locked /\ lk_held = 1

\* C6: every registration on the trigger of Event.wait() returns without an
\* exception, and after set() the event is set and every waiter was called
\* exactly once.
C6_EventFanOut ==
    /\ ev_last.op = "register" => ev_last.err = "none"
    /\ ev_last.op = "set" =>
        /\ IsSet(ev_fired)
        /\ \A h \in EventHandles : ev_reg[h] = "woken" => ev_calls[h] = 1

\* C7: after set() then clear() the event is not set, and a callback whose
\* registration after them returned has not been called while no set()
\* followed, and has been called exactly once after the next set().
C7_ClearRearms ==
    /\ ev_hist = "cleared" => ~IsSet(ev_fired)
    /\ \A h \in EventHandles :
        ev_after_clear[h] =>
            /\ ev_reg[h] = "waiting" => ev_calls[h] = 0
            /\ ev_reg[h] = "woken" => ev_calls[h] = 1

\* a callback registered after set() and clear() was woken by the next set()
C7_Witness ==
    \E h \in EventHandles :
        ev_after_clear[h] /\ ev_reg[h] = "woken" /\ ev_calls[h] = 1

\* a task whose coroutine is suspended at an await of a trigger
Suspended(t) == coro[t] = "suspended" /\ ~Done(state[t])

\* a task that kill() or cancel() brought to its terminal state
Killed(t) ==
    \/ state[t] = "CANCELLED"
    \/ state[t] = "FINISHED" /\ outcome[t] = "ValueNone"

\* C11: kill() or cancel() of a task that is suspended on the trigger it
\* yielded returns without an exception, with the task terminal and no longer
\* among the tasks that wait for a trigger, so that no fire can queue it.
C11_KillDeregisters ==
    [][\A t \in Tasks :
        ((CallKill(t) \/ CallCancel(t)) /\ Suspended(t))
        => /\ last'.err = "none"
           /\ Done(state'[t])
           /\ t \notin pending_tasks'
           /\ ~InQueue(scheduled_tasks', t)]_vars

C13_CancelCurrent ==
    [][\A t \in Tasks :
        ((CallKill(t) \/ CallCancel(t)) /\ pc = "body" /\ current_task = t)
        => /\ last'.err = "none"
           /\ ~Done(state'[t])]_vars

\* C14: a task in the ready queue that is not running is SCHEDULED, a task
\* suspended on a trigger is PENDING, and a task is RUNNING only while it is
\* the task being resumed.
C14_StateMachine ==
    \A t \in Tasks :
        /\ (InQueue(scheduled_tasks, t) /\ current_task # t) => state[t] = "SCHEDULED"
        /\ (Suspended(t) /\ ~InQueue(scheduled_tasks, t)) => state[t] = "PENDING"
        /\ state[t] = "RUNNING" => current_task = t

\* C15: when the event loop ends with the terminate flag set, cleanup raises
\* nothing, every task that was queued or pending is terminal, both
\* collections are empty, test_complete_cb was called and the flag is false.
C15_CleanupCompletes ==
    [][(LoopExit /\ terminate)
        => /\ last'.op = "test_complete_cb" /\ last'.err = "none"
           /\ \A t \in QueueTasks(scheduled_tasks) \cup pending_tasks : Done(state'[t])
           /\ scheduled_tasks' = <<>> /\ pending_tasks' = {}
           /\ ~terminate']_vars

\* C16: while the terminate flag is set no coroutine starts to run, and the
\* loop boundary that follows kills every task of the ready queue: each is
\* FINISHED with Value(None) and out of the queue.
C16_TerminateStopsLoop ==
    /\ [][terminate => \A t \in Tasks : coro'[t] = "running" => coro[t] = "running"]_vars
    /\ [][(LoopExit /\ terminate)
            => \A t \in QueueTasks(scheduled_tasks) :
                /\ state'[t] = "FINISHED" /\ outcome'[t] = "ValueNone"
                /\ ~InQueue(scheduled_tasks', t)]_vars

\* C17: the step in which the test task becomes terminal, by finishing or by
\* kill(), leaves the terminate flag set.
C17_TestTaskTerminates ==
    [][(~Done(state[TestTask]) /\ Done(state'[TestTask])) => terminate']_vars

\* C18: a waiter that _run_in_executor created has its thread started, and
\* once its function has ended the waiter leaves pending_threads and the task
\* that awaits it is resumed.
C18_ExecutorRoundTrip ==
    \A w \in Waiters :
        /\ (ext_task[w] # NoTask) ~> (ext_state[w] # "INIT")
        /\ (thread_pc[w] = "exited")
            ~> (/\ ~ListHas(pending_threads, w)
                /\ ext_task[w] # NoTask
                /\ coro[ext_task[w]] # "suspended")

\* C19: a thread blocked in queue_function leaves the scheduler free
\* (thread_wait on its waiter returns), and it returns from the call only
\* after the wrapper task has finished, with the outcome of the coroutine.
C19_QueueFunctionBlocks ==
    /\ [](\A w \in Waiters :
            (thread_pc[w] = "blocked" /\ ~qf_event) => ThreadWaitReturns(ext_state[w]))
    /\ [][\A w \in Waiters :
            ThreadQueueFunctionReturn(w)
            => /\ state[WrapperTask] = "FINISHED" /\ coro[WrapperTask] = "closed"
               /\ qf_outcome \in {"Value", "Error"}
               /\ qf_received' = qf_outcome]_vars

\* a thread returned from queue_function with the exception of the coroutine,
\* which the scheduler ran while the thread was blocked
C19_Witness ==
    /\ qf_thread # NoWaiter
    /\ qf_received = "Error"
    /\ state[WrapperTask] = "FINISHED"

\* C20: outside a resume (in the event loop between two tasks, or back in the
\* simulator) no waiter of pending_threads is RUNNING.
C20_NoRunningExternal ==
    pc \notin {"body", "drain"}
    => \A w \in Waiters : ListHas(pending_threads, w) => ext_state[w] # "RUNNING"

\* C26: a one-shot trigger can be awaited only once in its lifetime; for the
\* trigger of one Lock.acquire(): a registration made right after the trigger
\* fired (it is in the grant of the last call) raises RuntimeError
C26_OneShot ==
    [][\A g \in LockTrigs :
          (LockRegister(g) /\ g \in lk_last.grant) => lk_last'.err = "RuntimeError"]_vars

\* C27: release() on a Lock that is not held raises RuntimeError and changes
\* nothing: not the lock bit, the pending list, or any trigger's callbacks
C27_ReleaseUnheld ==
    [][(LockRelease /\ ~locked) =>
          /\ lk_last'.err = "RuntimeError"
          /\ UNCHANGED <<locked, pending_primed, lk_primed, lk_callbacks, lk_calls,
                         lk_nhandles, lk_held>>]_vars

\* release() was refused on a Lock that had been acquired and released before
C27_Witness ==
    /\ lk_last = LockCall("release", "RuntimeError", {})
    /\ lk_nhandles > 0
    /\ ~locked

\* the handles of a deck, earlier registrations first (handles are numbered
\* in the order register() created them)
InRegistrationOrder(d) == \A i, j \in 1..Len(d) : i < j => d[i] < d[j]

\* a step in which the Event's trigger reacts: set(), or register() on a set Event
EventReacts == EventSet \/ (EventRegister /\ ~ev_primed /\ IsSet(ev_fired))

\* C22: a react runs every registered callback exactly once and ends with an
\* empty callback list and _cleanup run (not primed); no handle is ever run
\* twice, whatever register, deregister, set and clear calls came before
C22_ReactOnce ==
    /\ [](\A h \in EventHandles : ev_calls[h] <= 1)
    /\ [][EventSet =>
            /\ \A h \in EventHandles :
                  ev_calls'[h] = ev_calls[h] + (IF DeckHas(ev_callbacks, h) THEN 1 ELSE 0)
            /\ ev_callbacks' = <<>>
            /\ ~ev_primed']_vars

\* set() ran two registered callbacks, each once
C22_Witness ==
    /\ ev_last.op = "set"
    /\ Len(ev_ran) = 2
    /\ \A i \in 1..Len(ev_ran) : ev_calls[ev_ran[i]] = 1
    /\ ev_callbacks = <<>>

C24_Deregister ==
    /\ [](\A h \in EventHandles : ev_reg[h] = "deregistered" => ev_calls[h] = 0)
    /\ [][\A h \in EventHandles : EventDeregister(h) =>
            /\ ~DeckHas(ev_callbacks', h)
            /\ Len(ev_callbacks') = Len(ev_callbacks) - 1
            /\ \A x \in EventHandles \ {h} : DeckHas(ev_callbacks', x) <=> DeckHas(ev_callbacks, x)
            /\ InRegistrationOrder(ev_callbacks')
            /\ ev_primed /\ (ev_primed' <=> ev_callbacks' # <<>>)]_vars

\* a callback was deregistered while another stayed registered, and a later
\* set() ran the other one only
C24_Witness ==
    /\ ev_last.op = "set"
    /\ \E h, x \in EventHandles :
          /\ ev_reg[h] = "deregistered" /\ ev_calls[h] = 0
          /\ h < x /\ ev_ran = <<x>> /\ ev_calls[x] = 1

\* C25: registering on a trigger that fires at prime time (a NullTrigger, the
\* wait() trigger of a set Event, an acquire() trigger of a free Lock) runs the
\* new callback exactly once before register returns, raises nothing, and
\* leaves the trigger with no callbacks and not primed; the callback is not
\* run again later
C25_FiresAtPrime ==
    /\ [](/\ \A h \in NullHandles : nt_calls[h] <= 1
          /\ \A h \in EventHandles : ev_calls[h] <= 1
          /\ \A h \in LockHandles : lk_calls[h] <= 1)
    /\ [][/\ (NullRegister =>
                /\ nt_calls'[nt_nhandles'] = 1
                /\ nt_callbacks' = <<>>)
           /\ ((EventRegister /\ IsSet(ev_fired)) =>
                /\ ev_last'.err = "none"
                /\ ev_calls'[ev_nhandles'] = 1
                /\ ev_callbacks' = <<>>
                /\ ~ev_primed')
           /\ \A g \in LockTrigs : (LockRegister(g) /\ ~locked) =>
                /\ lk_last'.err = "none"
                /\ lk_calls'[lk_nhandles'] = 1
                /\ lk_callbacks'[g] = <<>>
                /\ ~lk_primed'[g]]_vars

\* two callbacks were registered on the NullTrigger one after the other: each
\* has run once and none is registered
C25_Witness ==
    /\ nt_nhandles = 2
    /\ nt_calls[1] = 1 /\ nt_calls[2] = 1
    /\ nt_ran = <<2>>
    /\ nt_callbacks = <<>>

\* C29: every task gets an id that is unique among all tasks and strictly
\* greater than the id of every task created before it, whatever the kinds
C29_UniqueIds ==
    \A i, j \in 1..Len(created) : i < j => created[i].id < created[j].id

\* C30: run_shutdown_callbacks(reason) calls every registered callback exactly
\* once with that reason, the one registered last first, and leaves the
\* registry empty, so that a second run calls nothing
C30_RunShutdown ==
    [][\A reason \in Reasons : RunShutdownCallbacks(reason) =>
          /\ Len(sd_ran') = Len(shutdown_callbacks)
          /\ \A i \in 1..Len(shutdown_callbacks) :
                sd_ran'[i] = [cb |-> shutdown_callbacks[Len(shutdown_callbacks) + 1 - i],
                              reason |-> reason]
          /\ shutdown_callbacks' = <<>>]_vars

\* cb1 then cb2 were registered and a run called cb2 then cb1
C30_Witness ==
    /\ sd_ran = <<[cb |-> "cb2", reason |-> "reason1"], [cb |-> "cb1", reason |-> "reason1"]>>
    /\ shutdown_callbacks = <<>>

\* C28: an Event.set() issued from inside a task body runs no callback
\* registered on the event during that resume: the waiters are woken only
\* after the resume has completed
C28_SetDeferred ==
    [][TaskEventSet => ev_calls' = ev_calls]_vars

\* a step of an external thread: the code that runs on the thread of a waiter
ThreadStep ==
    \E w \in Waiters :
        \/ \E kind \in {"return", "raise"} : ThreadDone(w, kind)
        \/ ThreadQueueFunction(w)
        \/ ThreadQueueFunctionReturn(w)

\* C21, as stated: an external thread, also one that calls queue_function,
\* never writes the ready queue, the pending set, pending_threads or
\* pending_events
C21_ThreadsNeverWrite ==
    [][ThreadStep =>
          UNCHANGED <<scheduled_tasks, pending_tasks, pending_threads, pending_events>>]_vars

\* C21, amended: an external thread writes scheduler state in queue_function
\* only, where it appends its wrapper task to the end of the ready queue; it
\* never writes the pending set, pending_threads, pending_events or any task,
\* and nothing else of the ready queue
C21_ThreadsOnlyQueue ==
    [][ThreadStep =>
          /\ UNCHANGED <<pending_tasks, pending_threads, pending_events, current_task,
                         terminate, state, outcome, coro>>
          /\ \/ UNCHANGED scheduled_tasks
             \/ /\ \E w \in Waiters : ThreadQueueFunction(w)
                /\ scheduled_tasks' =
                      Append(scheduled_tasks, [task |-> WrapperTask, outcome |-> "ValueNone"])]_vars

\* an external thread has called queue_function while another task was in the
\* ready queue: its wrapper task is queued behind it and the thread is blocked
C21_Witness ==
    /\ \E w \in Waiters : thread_pc[w] = "blocked" /\ qf_thread = w
    /\ Len(scheduled_tasks) >= 2
    /\ scheduled_tasks[Len(scheduled_tasks)].task = WrapperTask
    /\ state[WrapperTask] = "UNSTARTED"

\* C31: after remove_shutdown_callback(cb) of a registered callback,
\* run_shutdown_callbacks no longer calls cb, and still calls every other
\* registered callback
C31_RemovedNotCalled ==
    [][\A reason \in Reasons : RunShutdownCallbacks(reason) =>
          \A cb \in ShutdownCbs :
             (\E i \in 1..Len(sd_ran') : sd_ran'[i].cb = cb)
             <=> (ListHas(shutdown_callbacks, cb) /\ cb \notin sd_removed)]_vars

\* C32: when a resumed task returns or raises, also on its first resume, the
\* resume completes without a scheduler error, the task is done with its
\* done-callbacks run, and it is in neither the ready queue nor the pending set
C32_FinishClean ==
    [][\A kind \in {"return", "raise"} : BodyFinish(kind) =>
          /\ last'.err = "none"
          /\ Done(state'[current_task])
          /\ \A i \in DOMAIN done_callbacks'[current_task] :
                done_callbacks'[current_task][i] = 1
          /\ ~InQueue(scheduled_tasks', current_task)
          /\ current_task \notin pending_tasks']_vars

\* C33: at most one task is being resumed at any moment; a resume requested
\* while current_task is set raises InternalError and does not advance the
\* task; current_task is None whenever no resume is under way, whether the
\* last one returned or raised
C33_SingleResume ==
    /\ [](/\ Cardinality({t \in AllTasks : coro[t] = "running"}) <= 1
          /\ \A t \in AllTasks : coro[t] = "running" => current_task = t
          /\ pc \notin {"body", "drain"} => current_task = NoTask)
    /\ [][ReentrantEventLoop =>
            /\ last'.err = "InternalError"
            /\ UNCHANGED <<current_task, state, coro, outcome>>]_vars

\* the coroutine of the current task asked for a resume of another task, which
\* was refused: the other task has not run, the current task is still current
C33_Witness ==
    /\ last.op = "resume" /\ last.err = "InternalError"
    /\ current_task # NoTask
    /\ coro[current_task] = "running"
    /\ \E t \in Tasks : t # current_task /\ coro[t] = "created" /\ ~InQueue(scheduled_tasks, t)

\* C34: an Event of pending_events is set between resumes only (never while
\* current_task is set), the events are set in the order in which they were
\* deferred, and none is left when the next task is popped from the ready queue
C34_DeferredEvents ==
    /\ [](pending_events # <<>> => pc \in {"drain", "events"})
    /\ [][/\ (ext_event' # ext_event) => (current_task = NoTask /\ current_task' = NoTask)
          /\ \A w \in Waiters : (~ext_event[w] /\ ext_event'[w]) =>
                /\ pending_events # <<>>
                /\ w = pending_events[1]
                /\ pending_events' = Tail(pending_events)
          /\ (pending_events' # pending_events) =>
                \/ pending_events # <<>> /\ pending_events' = Tail(pending_events)
                \/ \E w \in Waiters : /\ ~ListHas(pending_events, w)
                                       /\ pending_events' = Append(pending_events, w)
          /\ (ResumeBegin \/ ReentrantEventLoop) => pending_events = <<>>]_vars

\* two events were deferred in one resume, and the one deferred first has been
\* set while the other is still waiting
C34_Witness ==
    /\ pc = "events"
    /\ Len(pending_events) = 1
    /\ \E w \in Waiters : w # pending_events[1] /\ ext_event[w] /\ ext_state[w] = "EXITED"
    /\ ~ext_event[pending_events[1]]
    /\ current_task = NoTask

\* C36: at the tail of a main-thread resume every waiter of pending_threads
\* is visited; when the loop over the waiters is over, none that is still in
\* the list is in INIT (each was started) or RUNNING (each was waited on)
C36_EveryWaiterVisited ==
    [][DrainEnd =>
          \A w \in Waiters :
             ListHas(pending_threads, w) => ext_state[w] \notin {"INIT", "RUNNING"}]_vars

\* C35: the number of callbacks registered on a trigger equals the number of
\* tasks suspended on it; a task that yields the trigger of an Event has one
\* more callback registered on that trigger when that resume ends
C35_CallbackPerWaiter ==
    [][TaskAwaitEvent => Len(ev_callbacks') = Len(ev_callbacks) + 1]_vars

C38_RejectedNotRetained ==
    /\ [](\A h \in EventHandles : ev_reg[h] = "rejected" => ev_calls[h] = 0)
    /\ [][(EventRegister /\ ev_primed) =>
            (ev_last'.err = "RuntimeError" /\ ev_callbacks' = ev_callbacks)]_vars

\* C39: a Lock waiter whose acquire trigger is deregistered before the lock is
\* granted to it leaves the waiting queue and is not granted the lock later;
\* the other waiters keep their relative order; whenever the waiting queue is
\* not empty the lock is held
C39_DeregisteredWaiter ==
    /\ [](pending_primed # <<>> => locked)
    /\ [][\A g \in LockTrigs : \A h \in LockHandles :
            (LockDeregister(g, h) /\ ListHas(pending_primed, g)) =>
               /\ ~ListHas(pending_primed', g)
               /\ pending_primed' = SelectSeq(pending_primed, LAMBDA x : x # g)
               /\ lk_calls' = lk_calls
               /\ lk_callbacks'[g] = <<>>]_vars

\* a step of the scheduler thread that reads or writes the ready queue or the
\* pending set
SchedulerBookkeeping ==
    \/ \E t \in Tasks : StartTask(t, "ValueNone")
    \/ ResumeBegin
    \/ ReentrantEventLoop
    \/ BodyYield
    \/ RunInExecutor
    \/ \E kind \in {"return", "raise"} : BodyFinish(kind)
    \/ \E kind \in {"return", "raise"} : WrapperFinish(kind)
    \/ LoopExit

\* the thread of waiter w runs its function: it was started, or woken by the
\* wrapper of queue_function, and has not paused or exited since
ThreadRuns(w) == thread_pc[w] = "func" /\ ext_state[w] = "RUNNING"

\* C40: from the moment an external thread is started or woken until it
\* pauses or exits, the scheduler thread neither reads nor writes the ready
\* queue or the pending set
C40_NoConcurrentBookkeeping ==
    [][SchedulerBookkeeping => \A w \in Waiters : ~ThreadRuns(w)]_vars

====
